---------------------------- MODULE Spec2Model ----------------------------
(***************************************************************************)
(* Model of src/src/Lab_2_4_LR2.py: the LinearRegressor object (fit,       *)
(* fit_multiple, fit_gradient_descent, predict) and the free functions     *)
(* evaluate_regression and one_hot_encode.                                 *)
(*                                                                         *)
(* Numbers are exact rationals <<numerator, denominator>> in lowest terms  *)
(* with a positive denominator: the real-number reading of the numpy       *)
(* float64 arithmetic of the source.  None is the Python None.             *)
(***************************************************************************)
EXTENDS Integers, Sequences, FiniteSets, TLC

\* the Python None (an empty tuple compares with every tuple and record)
None == <<>>
\* an attribute the object does not have yet (a value that no list of numbers
\* and no list of tuples of numbers equals)
NoAttribute == << <<>> >>

(***************************************************************************)
(* Scalar arithmetic of the source (+, -, *, /, **2, abs) on rationals.    *)
(***************************************************************************)
Abs(i) == IF i < 0 THEN -i ELSE i

RECURSIVE GCD(_, _)
GCD(a, b) == IF b = 0 THEN a ELSE GCD(b, a % b)

RNorm(n, d) ==
    LET g == GCD(Abs(n), Abs(d))
        s == IF d < 0 THEN -1 ELSE 1
    IN  <<(s * n) \div g, (s * d) \div g>>

R(i) == <<i, 1>>
Zero == R(0)
One == R(1)

RAdd(a, b) ==
    LET g == GCD(a[2], b[2])
    IN  RNorm(a[1] * (b[2] \div g) + b[1] * (a[2] \div g), a[2] * (b[2] \div g))

RNeg(a) == <<-a[1], a[2]>>
RSub(a, b) == RAdd(a, RNeg(b))

RMul(a, b) ==
    LET g1 == GCD(Abs(a[1]), b[2])
        g2 == GCD(Abs(b[1]), a[2])
    IN  RNorm((a[1] \div g1) * (b[1] \div g2), (a[2] \div g2) * (b[2] \div g1))

\* a / b for b # 0
RDiv(a, b) == RMul(a, RNorm(b[2], b[1]))
RSquare(a) == RMul(a, a)
RAbs(a) == <<Abs(a[1]), a[2]>>

(***************************************************************************)
(* numpy vectors (sequences of numbers) and 2-D arrays (sequences of rows).*)
(***************************************************************************)
\* a sequence given as a function over 1..n, in explicit form
Vec(f) == f \o <<>>

\* the element of a one-element set: Only({F(v) : v \in {e}}) is F(e) with e
\* evaluated once
Only(S) == CHOOSE v \in S : TRUE

RECURSIVE Sum(_)
Sum(v) == IF v = <<>> THEN Zero ELSE RAdd(v[1], Sum(Tail(v)))

Range(s) == {s[i] : i \in DOMAIN s}
Rows(X) == Len(X)
Cols(X) == Len(X[1])
Column(X, j) == Vec([i \in 1..Len(X) |-> X[i][j]])
Transpose(X) == Vec([j \in 1..Cols(X) |-> Column(X, j)])
Dot(u, v) == Sum(Vec([i \in 1..Len(u) |-> RMul(u[i], v[i])]))
MatVec(A, v) == Vec([i \in 1..Len(A) |-> Dot(A[i], v)])
MatMul(A, B) ==
    Only({ Vec([i \in 1..Len(A) |-> Vec([j \in 1..Len(Bt) |-> Dot(A[i], Bt[j])])]) :
           Bt \in { Transpose(B) } })
MatAdd(A, B) == Vec([i \in 1..Len(A) |-> Vec([j \in 1..Cols(A) |-> RAdd(A[i][j], B[i][j])])])
MatScale(c, A) == Vec([i \in 1..Len(A) |-> Vec([j \in 1..Cols(A) |-> RMul(c, A[i][j])])])
Identity(k) == Vec([i \in 1..k |-> Vec([j \in 1..k |-> IF i = j THEN One ELSE Zero])])
Trace(A) == Sum(Vec([i \in 1..Len(A) |-> A[i][i]]))
VecSub(u, v) == Vec([i \in 1..Len(u) |-> RSub(u[i], v[i])])
VecScale(c, v) == Vec([i \in 1..Len(v) |-> RMul(c, v[i])])
VecAddScalar(v, c) == Vec([i \in 1..Len(v) |-> RAdd(v[i], c)])
Mean(v) == RDiv(Sum(v), R(Len(v)))

\* an integer-valued array read as numbers
ToRat(v) == Vec([i \in 1..Len(v) |-> R(v[i])])
ToRatMatrix(X) == Vec([i \in 1..Len(X) |-> ToRat(X[i])])

(***************************************************************************)
(* np.linalg.pinv of a symmetric matrix A (here always X.T @ X): the       *)
(* Moore-Penrose inverse.  FaddeevLeVerrier(A, j) lists, for steps 1..j,   *)
(* M_j = A^(j-1) + a_1 A^(j-2) + ... + a_(j-1) I and the coefficient a_j   *)
(* of the characteristic polynomial.  With r the rank of A (the last       *)
(* nonzero a_j), every nonzero eigenvalue e has 1/e = -m_r(e)/a_r, so      *)
(* pinv(A) = A M_r M_r / a_r^2, which is the inverse when r is full.       *)
(***************************************************************************)
RECURSIVE FaddeevLeVerrier(_, _)
FaddeevLeVerrier(A, j) ==
    IF j = 0 THEN <<>>
    ELSE Only({ Only({ Append(prev, [M |-> M,
                                     a |-> RDiv(RNeg(Trace(MatMul(A, M))), R(j))]) :
                       M \in { IF j = 1 THEN Identity(Len(A))
                               ELSE MatAdd(MatMul(A, prev[j - 1].M),
                                           MatScale(prev[j - 1].a, Identity(Len(A)))) } }) :
                prev \in { FaddeevLeVerrier(A, j - 1) } })

\* the rank of A, read off the steps fl of FaddeevLeVerrier
MatrixRank(fl) ==
    LET nz == {j \in 1..Len(fl) : fl[j].a # Zero}
    IN  IF nz = {} THEN 0 ELSE CHOOSE j \in nz : \A i \in nz : i <= j

pinv(A) ==
    Only({ Only({ IF r = 0 THEN A
                  ELSE MatScale(RDiv(One, RSquare(fl[r].a)),
                                MatMul(A, MatMul(fl[r].M, fl[r].M))) :
                  r \in { MatrixRank(fl) } }) :
           fl \in { FaddeevLeVerrier(A, Len(A)) } })

(***************************************************************************)
(* Inputs.  An array is [ndim, data]: data is the sequence of rows when     *)
(* ndim = 2, and holds the cells as its one element when ndim = 1.         *)
(***************************************************************************)
Flat(v) == [ndim |-> 1, data |-> <<v>>]
Matrix(rows) == [ndim |-> 2, data |-> rows]
\* the cells of a 1-D array
Cells(X) == X.data[1]

\* (X, y) pairs handed to fit in Spec: one feature, two features, and a
\* target shorter than X
Datasets ==
    { [X |-> Matrix(<<<<0>>, <<1>>>>), y |-> <<1, 3>>],
      [X |-> Matrix(<<<<0, 1>>, <<1, 0>>, <<1, 1>>>>), y |-> <<1, 2, 3>>],
      [X |-> Flat(<<0, 1, 2>>), y |-> <<1, 2>>] }

\* (X, y) pairs handed to fit in SpecLS: as many rows as parameters, more
\* rows with y on a line and off it, collinear columns, mismatched lengths
LSDatasets ==
    { [X |-> Matrix(<<<<0>>, <<1>>>>), y |-> <<1, 3>>],
      [X |-> Flat(<<0, 1, 2>>), y |-> <<0, 0, 1>>],
      [X |-> Flat(<<0, 1, 2>>), y |-> <<1, 3, 5>>],
      [X |-> Matrix(<<<<0, 1>>, <<1, 0>>, <<1, 1>>>>), y |-> <<1, 2, 3>>],
      [X |-> Matrix(<<<<0, 1>>, <<1, 0>>, <<1, 1>>, <<0, 0>>>>), y |-> <<1, 2, 3, 0>>],
      [X |-> Matrix(<<<<0, 1>>, <<1, 0>>, <<1, 1>>, <<0, 0>>>>), y |-> <<1, 2, 3, 1>>],
      [X |-> Matrix(<<<<1, 1>>, <<2, 2>>>>), y |-> <<1, 2>>],
      [X |-> Matrix(<<<<1, 1>>, <<2, 2>>, <<3, 3>>>>), y |-> <<1, 2, 4>>],
      [X |-> Matrix(<<<<1>>, <<1>>>>), y |-> <<1, 2>>],
      [X |-> Matrix(<<<<0>>, <<1>>>>), y |-> <<1>>],
      [X |-> Flat(<<0, 1, 2>>), y |-> <<1, 2>>] }

\* (X, y) pairs handed to fit in SpecGD: matching lengths, and the
\* mismatches numpy broadcasts (len(y) = 1, one row) or rejects
GDDatasets ==
    { [X |-> Matrix(<<<<0>>, <<1>>>>), y |-> <<1, 3>>],
      [X |-> Flat(<<0, 1, 2>>), y |-> <<0, 0, 1>>],
      [X |-> Matrix(<<<<0, 1>>, <<1, 0>>, <<1, 1>>>>), y |-> <<1, 2, 3>>],
      [X |-> Matrix(<<<<0>>, <<1>>>>), y |-> <<1>>],
      [X |-> Matrix(<<<<1>>>>), y |-> <<1, 2>>],
      [X |-> Flat(<<0, 1, 2>>), y |-> <<1, 2>>] }

\* arrays handed to predict
PredictInputs(datasets) == {d.X : d \in datasets}

\* method strings other than "gradient_descent" handed to fit
OtherMethods == {"least_squares", "ridge"}
LearningRates == {<<1, 2>>, <<1, 1>>}
\* iteration counts handed to fit are 0..MaxIter
MaxIter == 2
\* the defaults of fit's signature: learning_rate=0.01, iterations=1000
DefaultLearningRate == <<1, 100>>
DefaultIterations == 1000
\* values np.random.rand() * 0.01 may return, all in [0, 0.01)
RandSmall == {<<0, 1>>, <<1, 128>>}

(***************************************************************************)
(* State of one LinearRegressor object and of the call in progress.        *)
(***************************************************************************)
VARIABLES
    intercept,      \* self.intercept: None or a number
    coefficients,   \* self.coefficients: None or a vector
    loss_values,    \* self.loss_values: NoAttribute until fit_gradient_descent creates it
    param_history,  \* self.param_history: likewise
    pc,             \* "idle", or "gd_loop" inside the loop of fit_gradient_descent
    frame,          \* locals of the running fit_gradient_descent, None when idle
    outcome,        \* how the most recent call ended, and what it returned
    call,           \* record of the most recent fit call (history variable)
    fitted_on,      \* the X of the fit call that last assigned the parameters
                    \* (history variable), None while they are unset
    args            \* arguments of the free function called next, else None

vars == <<intercept, coefficients, loss_values, param_history, pc, frame,
          outcome, call, fitted_on, args>>

params == <<intercept, coefficients>>
history == <<loss_values, param_history>>

Init ==
    /\ intercept = None
    /\ coefficients = None
    /\ loss_values = NoAttribute
    /\ param_history = NoAttribute
    /\ pc = "idle"
    /\ frame = None
    /\ outcome = None
    /\ call = None
    /\ fitted_on = None
    /\ args = None

\* the array X with its integer cells read as numbers
Numeric(X) ==
    [ndim |-> X.ndim, data |-> ToRatMatrix(X.data)]

\* X.reshape(-1, 1) when np.ndim(X) == 1
reshape(X) ==
    IF X.ndim = 1 THEN Vec([i \in 1..Len(Cells(X)) |-> <<Cells(X)[i]>>]) ELSE X.data

\* np.c_[np.ones(X.shape[0]), X]
with_bias(rows) == Vec([i \in 1..Len(rows) |-> <<One>> \o rows[i]])

\* X[:, 1:]
without_bias(X) == Vec([i \in 1..Len(X) |-> Tail(X[i])])

\* number of non-bias feature columns of the X given to fit
features(X) == IF X.ndim = 1 THEN 1 ELSE Len(X.data[1])

\* how a call ends: the error it raises, or the value it returns
Raised(error) == [status |-> error, value |-> None]
Returned(value) == [status |-> "ok", value |-> value]
Outcome(op, X, end) == [op |-> op, X |-> X, status |-> end.status, value |-> end.value]
MethodError == "ValueError: Method not available for training linear regression."
NotFittedError == "ValueError: Model is not yet fitted"
ShapeError == "ValueError: shapes not aligned"

\* the history variable at entry to fit
NewCall(X, y, method) ==
    [X |-> X, y |-> y, method |-> method, learning_rate |-> Zero, iterations |-> 0,
     intercept_writes |-> 0, coefficients_writes |-> 0, updates |-> 0,
     initial |-> None, status |-> "running"]

(***************************************************************************)
(* predict: the value it returns, or the error it raises, for an array X   *)
(* of numbers under parameters (icpt, coefs).                              *)
(***************************************************************************)
\* X * coefficients + intercept with numpy broadcasting of two 1-D arrays
predict_flat(v, coefs, icpt) ==
    IF Len(coefs) = 1
    THEN Returned(Vec([i \in 1..Len(v) |-> RAdd(RMul(v[i], coefs[1]), icpt)]))
    ELSE IF Len(v) = 1
    THEN Returned(Vec([j \in 1..Len(coefs) |-> RAdd(RMul(v[1], coefs[j]), icpt)]))
    ELSE IF Len(v) = Len(coefs)
    THEN Returned(Vec([i \in 1..Len(v) |-> RAdd(RMul(v[i], coefs[i]), icpt)]))
    ELSE Raised(ShapeError)

\* X.dot(coefficients) + intercept
predict_rows(rows, coefs, icpt) ==
    IF Cols(rows) = Len(coefs)
    THEN Returned(VecAddScalar(MatVec(rows, coefs), icpt))
    ELSE Raised(ShapeError)

\* predict that returns nothing, instead of raising, on an unfitted model
predict_result_unguarded(X, coefs, icpt) ==
    IF coefs = None \/ icpt = None
    THEN Returned(None)
    ELSE IF X.ndim = 1
    THEN predict_flat(Cells(X), coefs, icpt)
    ELSE predict_rows(X.data, coefs, icpt)

predict_result(X, coefs, icpt) ==
    IF coefs = None \/ icpt = None
    THEN Raised(NotFittedError)
    ELSE IF X.ndim = 1
    THEN predict_flat(Cells(X), coefs, icpt)
    ELSE predict_rows(X.data, coefs, icpt)

predict(X) ==
    /\ pc = "idle"
    /\ outcome' = Outcome("predict", X,
                           predict_result(Numeric(X), coefficients, intercept))
    /\ UNCHANGED <<intercept, coefficients, loss_values, param_history, pc,
                   frame, call, fitted_on, args>>

(***************************************************************************)
(* fit_multiple(X, y): X carries the bias column.                          *)
(***************************************************************************)
\* X.T @ y, the pseudo-inverse left out
normal_equation_no_inverse(X, y) == MatVec(Transpose(X), y)

\* w = np.linalg.pinv(X.T @ X) @ X.T @ y, for len(y) = X.shape[0]
normal_equation(X, y) ==
    Only({ Only({ Only({ MatVec(MatMul(P, Xt), y) : P \in { pinv(XtX) } }) :
                  XtX \in { MatMul(Xt, X) } }) :
           Xt \in { Transpose(X) } })

\* fit_multiple that assigns the intercept and leaves the coefficients
fit_multiple_intercept_only(X0, X, y) ==
    IF Rows(X) # Len(y)
    THEN /\ outcome' = Outcome("fit", X0, Raised(ShapeError))
         /\ call' = [NewCall(X0, y, "least_squares") EXCEPT !.status = "raised"]
         /\ UNCHANGED <<intercept, coefficients, fitted_on>>
    ELSE \E w \in { normal_equation(X, y) } :
             /\ intercept' = w[1]
             /\ UNCHANGED <<coefficients, fitted_on>>
             /\ outcome' = Outcome("fit", X0, Returned(None))
             /\ call' = [NewCall(X0, y, "least_squares")
                         EXCEPT !.status = "returned",
                                      !.intercept_writes = 1]

fit_multiple(X0, X, y) ==
    IF Rows(X) # Len(y)
    THEN \* the last @ raises: nothing was assigned
         /\ outcome' = Outcome("fit", X0, Raised(ShapeError))
         /\ call' = [NewCall(X0, y, "least_squares") EXCEPT !.status = "raised"]
         /\ UNCHANGED <<intercept, coefficients, fitted_on>>
    ELSE \E w \in { normal_equation(X, y) } :
             /\ intercept' = w[1]
             /\ coefficients' = Tail(w)
             /\ fitted_on' = X0
             /\ outcome' = Outcome("fit", X0, Returned(None))
             /\ call' = [NewCall(X0, y, "least_squares")
                         EXCEPT !.status = "returned",
                                      !.intercept_writes = 1,
                                      !.coefficients_writes = 1]

(***************************************************************************)
(* fit_gradient_descent(X, y, learning_rate, iterations): the statements   *)
(* before the loop, one pass of the loop body, and the return.             *)
(***************************************************************************)
\* one random value per column of X, the bias column included
RandomVectors_with_bias(k) == [1..k + 1 -> RandSmall]

\* np.random.rand(k) * 0.01
RandomVectors(k) == [1..k -> RandSmall]

fit_gradient_descent(X0, X, y, learning_rate, iterations) ==
    \E coefs \in RandomVectors(Cols(X) - 1), icpt \in RandSmall :
        /\ coefficients' = coefs
        /\ intercept' = icpt
        /\ fitted_on' = X0
        /\ loss_values' = <<>>
        /\ param_history' = <<>>
        /\ frame' = [X0 |-> X0, X |-> X, y |-> y, m |-> Len(y),
                     learning_rate |-> learning_rate,
                     iterations |-> iterations, epoch |-> 0]
        /\ pc' = "gd_loop"
        /\ call' = [NewCall(X0, y, "gradient_descent")
                    EXCEPT !.learning_rate = learning_rate,
                           !.iterations = iterations,
                           !.coefficients_writes = 1,
                           !.intercept_writes = 1,
                           !.initial = <<icpt>> \o coefs]
        /\ UNCHANGED <<outcome, args>>

\* u - v for 1-D arrays under numpy broadcasting; None when it raises
broadcast_sub(u, v) ==
    IF Len(u) = Len(v) THEN VecSub(u, v)
    ELSE IF Len(v) = 1 THEN Vec([i \in 1..Len(u) |-> RSub(u[i], v[1])])
    ELSE IF Len(u) = 1 THEN Vec([j \in 1..Len(v) |-> RSub(u[1], v[j])])
    ELSE None

\* np.mean(error**2)
mean_squared(error) == Mean(Vec([i \in 1..Len(error) |-> RSquare(error[i])]))

\* the gradient without the division by m
gradient_of_unscaled(X, error, learning_rate, m) ==
    VecScale(learning_rate, MatVec(Transpose(X), error))

\* (learning_rate / m) * X.T.dot(error), for len(error) = X.shape[0]
gradient_of(X, error, learning_rate, m) ==
    VecScale(RDiv(learning_rate, R(m)), MatVec(Transpose(X), error))

\* the parameters after lines 113-114, as <<intercept>> \o coefficients
updated(icpt, coefs, gradient) ==
    <<RSub(icpt, gradient[1])>> \o VecSub(coefs, Tail(gradient))

gd_raise ==
    /\ pc' = "idle"
    /\ frame' = None
    /\ outcome' = Outcome("fit", frame.X0, Raised(ShapeError))
    /\ call' = [call EXCEPT !.status = "raised"]

\* a loop that runs its body once too often
loop_continues_inclusive(epoch, iterations) == epoch <= iterations

\* for epoch in range(iterations): whether the body runs once more
loop_continues(epoch, iterations) == epoch < iterations

gd_iteration ==
    /\ pc = "gd_loop"
    /\ UNCHANGED <<fitted_on, args>>
    /\ loop_continues(frame.epoch, frame.iterations)
    /\ LET predictions == predict_result(Matrix(without_bias(frame.X)),
                                         coefficients, intercept).value
           error == broadcast_sub(predictions, frame.y)
       IN  IF error = None
           THEN \* line 101 raises
                /\ gd_raise
                /\ UNCHANGED <<intercept, coefficients, loss_values, param_history>>
           ELSE /\ loss_values' = Append(loss_values, mean_squared(error))
                /\ param_history' = Append(param_history, <<intercept>> \o coefficients)
                /\ IF Len(error) # Rows(frame.X)
                   THEN \* line 112 raises
                        /\ gd_raise
                        /\ UNCHANGED <<intercept, coefficients>>
                   ELSE LET gradient == gradient_of(frame.X, error,
                                                    frame.learning_rate, frame.m)
                            new == updated(intercept, coefficients, gradient)
                        IN  \* lines 117-119 print and assign nothing
                            /\ intercept' = Head(new)
                            /\ coefficients' = Tail(new)
                            /\ frame' = [frame EXCEPT !.epoch = @ + 1]
                            /\ call' = [call EXCEPT !.intercept_writes = @ + 1,
                                                    !.coefficients_writes = @ + 1,
                                                    !.updates = @ + 1]
                            /\ UNCHANGED <<pc, outcome>>

gd_return ==
    /\ pc = "gd_loop"
    /\ ~loop_continues(frame.epoch, frame.iterations)
    /\ pc' = "idle"
    /\ frame' = None
    /\ outcome' = Outcome("fit", frame.X0, Returned(None))
    /\ call' = [call EXCEPT !.status = "returned"]
    /\ UNCHANGED <<intercept, coefficients, loss_values, param_history,
                   fitted_on, args>>

(***************************************************************************)
(* fit(X, y, method, learning_rate, iterations)                            *)
(***************************************************************************)
\* a check that lets every method through
method_available_any(method) == TRUE

\* method in ["least_squares", "gradient_descent"]
method_available(method) == method \in {"least_squares", "gradient_descent"}

fit(X, y, method, learning_rate, iterations) ==
    /\ pc = "idle"
    /\ UNCHANGED args
    /\ IF ~method_available(method)
       THEN /\ outcome' = Outcome("fit", X, Raised(MethodError))
            /\ call' = [NewCall(X, ToRat(y), method) EXCEPT !.status = "raised"]
            /\ UNCHANGED <<intercept, coefficients, loss_values, param_history,
                           pc, frame, fitted_on>>
       ELSE \E X_with_bias \in { with_bias(ToRatMatrix(reshape(X))) },
               target \in { ToRat(y) } :
                IF method = "least_squares"
                THEN /\ fit_multiple(X, X_with_bias, target)
                     /\ UNCHANGED <<loss_values, param_history, pc, frame>>
                ELSE IF method = "gradient_descent"
                THEN fit_gradient_descent(X, X_with_bias, target,
                                          learning_rate, iterations)
                ELSE \* neither branch of lines 47-50 runs
                     /\ outcome' = Outcome("fit", X, Returned(None))
                     /\ call' = [NewCall(X, target, method)
                                 EXCEPT !.status = "returned"]
                     /\ UNCHANGED <<intercept, coefficients, loss_values,
                                    param_history, pc, frame, fitted_on>>

FitOther(datasets) ==
    \E d \in datasets, method \in OtherMethods :
        fit(d.X, d.y, method, DefaultLearningRate, DefaultIterations)

FitGradientDescent(datasets, rates) ==
    \E d \in datasets, learning_rate \in rates, iterations \in 0..MaxIter :
        fit(d.X, d.y, "gradient_descent", learning_rate, iterations)

Predict(datasets) == \E X \in PredictInputs(datasets) : predict(X)

\* one object under any sequence of fit and predict calls
Next ==
    \/ FitOther(Datasets)
    \/ FitGradientDescent(Datasets, {<<1, 2>>})
    \/ gd_iteration
    \/ gd_return
    \/ Predict(Datasets)

Spec == Init /\ [][Next]_vars

\* least-squares fits and predictions on a wider set of data
NextLS ==
    \/ FitOther(LSDatasets)
    \/ Predict(LSDatasets)

SpecLS == Init /\ [][NextLS]_vars

\* gradient-descent fits on a wider set of data and learning rates
NextGD ==
    \/ FitGradientDescent(GDDatasets, LearningRates)
    \/ gd_iteration
    \/ gd_return

SpecGD == Init /\ [][NextGD]_vars

(***************************************************************************)
(* evaluate_regression(y_true, y_pred) on numpy arrays of equal length.    *)
(* A metric is a number, NaN (0/0), NegInf (1 - x/0 for x > 0), or the     *)
(* root <<r>> of a number r that has no rational square root.              *)
(***************************************************************************)
NaN == <<0, 0>>
NegInf == <<-1, 0>>

\* the largest k with k * k <= n
RECURSIVE IntRootFrom(_, _)
IntRootFrom(n, k) == IF (k + 1) * (k + 1) > n THEN k ELSE IntRootFrom(n, k + 1)

\* np.sqrt(r) for r >= 0
Sqrt(r) ==
    LET p == IntRootFrom(r[1], 0)
        q == IntRootFrom(r[2], 0)
    IN  IF p * p = r[1] /\ q * q = r[2] THEN <<p, q>> ELSE <<r>>

SquaredDifferences(u, v) == Vec([i \in 1..Len(u) |-> RSquare(RSub(u[i], v[i]))])
AbsoluteDifferences(u, v) == Vec([i \in 1..Len(u) |-> RAbs(RSub(u[i], v[i]))])
Constant(c, n) == Vec([i \in 1..n |-> c])

\* RSS / TSS, the subtraction from 1 left out
r_squared_ratio(RSS, TSS) ==
    IF TSS # Zero THEN RDiv(RSS, TSS)
    ELSE IF RSS = Zero THEN NaN
    ELSE NegInf

\* 1 - RSS / TSS in numpy scalar arithmetic, which divides by zero to nan or inf
r_squared(RSS, TSS) ==
    IF TSS # Zero THEN RSub(One, RDiv(RSS, TSS))
    ELSE IF RSS = Zero THEN NaN
    ELSE NegInf

evaluate_regression(y_true, y_pred) ==
    LET RSS == Sum(SquaredDifferences(y_true, y_pred))
        TSS == Sum(SquaredDifferences(y_true, Constant(Mean(y_true), Len(y_true))))
        N == Len(y_pred)
    IN  [R2 |-> r_squared(RSS, TSS),
         RMSE |-> Sqrt(RMul(RDiv(One, R(N)), Sum(SquaredDifferences(y_true, y_pred)))),
         MAE |-> RMul(RDiv(One, R(N)), Sum(AbsoluteDifferences(y_true, y_pred)))]

\* values of the targets and predictions handed to evaluate_regression
Targets == {-1, 0, 2}
\* their lengths are 1..MaxLen
MaxLen == 3

EvaluateInputs ==
    UNION { [y_true : [1..n -> Targets], y_pred : [1..n -> Targets]] : n \in 1..MaxLen }

InitEvaluate ==
    /\ Init!1 /\ Init!2 /\ Init!3 /\ Init!4 /\ Init!5 /\ Init!6 /\ Init!7
    /\ Init!8 /\ Init!9
    /\ args \in EvaluateInputs

evaluate ==
    /\ args # None
    /\ outcome = None
    /\ outcome' = Outcome("evaluate_regression", None,
                          Returned(evaluate_regression(ToRat(args.y_true),
                                                       ToRat(args.y_pred))))
    /\ UNCHANGED <<intercept, coefficients, loss_values, param_history, pc,
                   frame, call, fitted_on, args>>

SpecEvaluate == InitEvaluate /\ [][evaluate]_vars

(***************************************************************************)
(* one_hot_encode(X, categorical_indices, drop_first) on a 2-D array whose *)
(* cells are all integers (dtype "int") or all one-character texts (dtype  *)
(* "str").  Columns are numbered from 1 here: column c is index c - 1 of   *)
(* the source.                                                             *)
(***************************************************************************)
Array(dtype, rows) == [ndim |-> 2, dtype |-> dtype, data |-> rows]

\* the code points of the characters in the text arrays
ord == [a |-> 97, b |-> 98, c |-> 99]
\* str(v) for the integers a one-hot matrix holds
str == <<"0", "1">>

\* how np.unique orders the cells of an array: numbers by value, texts by
\* code point
sort_key(dtype, v) == IF dtype = "str" THEN ord[v] ELSE v

\* the values np.insert writes are converted to the dtype of the array
astype(v, dtype) == IF dtype = "str" THEN str[v + 1] ELSE v

Max(S) == CHOOSE v \in S : \A u \in S : u <= v

\* sorted(categorical_indices, reverse=True), the indices being distinct
RECURSIVE SortedDescending(_)
SortedDescending(S) ==
    IF S = {} THEN <<>> ELSE <<Max(S)>> \o SortedDescending(S \ {Max(S)})

RECURSIVE SortedAscending(_, _)
SortedAscending(S, dtype) ==
    IF S = {} THEN <<>>
    ELSE LET least == CHOOSE v \in S :
                          \A u \in S : sort_key(dtype, v) <= sort_key(dtype, u)
         IN  <<least>> \o SortedAscending(S \ {least}, dtype)

\* the column itself in place of its distinct values
unique_with_repeats(column, dtype) == column

\* np.unique(column): the distinct values in ascending order
unique(column, dtype) == SortedAscending(Range(column), dtype)

\* lines 200-205
one_hot_matrix(column, unique_values) ==
    Vec([i \in 1..Len(column) |->
            Vec([k \in 1..Len(unique_values) |->
                    IF column[i] = unique_values[k] THEN 1 ELSE 0])])

\* one_hot[:, 1:]
drop_first_column(one_hot) == Vec([i \in 1..Len(one_hot) |-> Tail(one_hot[i])])

\* np.delete(A, index, axis=1)
delete_column(A, index) ==
    Vec([i \in 1..Len(A) |->
            SubSeq(A[i], 1, index - 1) \o SubSeq(A[i], index + 1, Len(A[i]))])

\* np.insert(A, index, one_hot.T, axis=1): row i of one_hot goes into row i
\* of A, in A's dtype
insert_columns(A, index, one_hot, dtype) ==
    Vec([i \in 1..Len(A) |->
            SubSeq(A[i], 1, index - 1)
            \o Vec([k \in 1..Len(one_hot[i]) |-> astype(one_hot[i][k], dtype)])
            \o SubSeq(A[i], index, Len(A[i]))])

\* the indices lowest first
processing_order_ascending(categorical_indices) ==
    LET descending == SortedDescending(Range(categorical_indices))
    IN  Vec([i \in 1..Len(descending) |-> descending[Len(descending) + 1 - i]])

\* the order in which the loop of line 192 takes the indices
processing_order(categorical_indices) == SortedDescending(Range(categorical_indices))

\* the loop of lines 192-213 over the indices still to process
RECURSIVE encode_columns(_, _, _, _)
encode_columns(X, X_transformed, indices, drop_first) ==
    IF indices = <<>> THEN X_transformed
    ELSE LET index == Head(indices)
             categorical_column == Column(X.data, index)
             full == one_hot_matrix(categorical_column,
                                    unique(categorical_column, X.dtype))
             one_hot == IF drop_first THEN drop_first_column(full) ELSE full
         IN  encode_columns(X,
                            insert_columns(delete_column(X_transformed, index),
                                           index, one_hot, X.dtype),
                            Tail(indices), drop_first)

one_hot_encode(X, categorical_indices, drop_first) ==
    Array(X.dtype,
          encode_columns(X, X.data, processing_order(categorical_indices),
                         drop_first))

\* <<rows, columns>> of the arrays handed to one_hot_encode
Shapes == {<<2, 2>>, <<3, 2>>, <<2, 3>>}
\* the cells of an integer array are 0..MaxValue
MaxValue == 2
\* the cells of a text array
Letters == {"a", "b", "c"}

\* lists of distinct column numbers of a c-column array, in any order
IndexLists(c) ==
    {<<>>} \cup {<<i>> : i \in 1..c}
           \cup {p \in (1..c) \X (1..c) : p[1] # p[2]}
           \cup {Vec([i \in 1..c |-> i])}

\* the cells an array of each dtype may hold
CellValues(dtype) == IF dtype = "str" THEN Letters ELSE 0..MaxValue

EncodeInputs(dtype) ==
    UNION { [X : {Array(dtype, rows) :
                     rows \in [1..shape[1] -> [1..shape[2] -> CellValues(dtype)]]},
             categorical_indices : IndexLists(shape[2]),
             drop_first : BOOLEAN] : shape \in Shapes }

InitEncode ==
    /\ Init!1 /\ Init!2 /\ Init!3 /\ Init!4 /\ Init!5 /\ Init!6 /\ Init!7
    /\ Init!8 /\ Init!9
    /\ \E dtype \in {"int", "str"} : args \in EncodeInputs(dtype)

\* the call returns a new array; no statement of the function writes to X
encode ==
    /\ args # None
    /\ outcome = None
    /\ outcome' = Outcome("one_hot_encode", args.X,
                          Returned(one_hot_encode(args.X, args.categorical_indices,
                                                  args.drop_first)))
    /\ UNCHANGED <<intercept, coefficients, loss_values, param_history, pc,
                   frame, call, fitted_on, args>>

SpecEncode == InitEncode /\ [][encode]_vars

(***************************************************************************)
(* Properties of the LinearRegressor object.                               *)
(***************************************************************************)
Unset == intercept = None /\ coefficients = None
LastFit(method, status) ==
    call # None /\ call.method = method /\ call.status = status

\* C1: predict on an object whose intercept and coefficients are both unset
\* raises the not-fitted error for every input X, flat or two-dimensional,
\* returns nothing, and leaves intercept and coefficients unset.
C1_PredictUnfitted ==
    [][\A X \in PredictInputs(Datasets) :
          (predict(X) /\ Unset) =>
              /\ outcome'.status = NotFittedError
              /\ outcome'.value = None
              /\ intercept' = None
              /\ coefficients' = None]_vars

C1_Witness ==
    /\ outcome # None
    /\ outcome.op = "predict"
    /\ outcome.X.ndim = 1
    /\ outcome.status = NotFittedError
    /\ Unset

\* C2: fit with a method that is neither "least_squares" nor
\* "gradient_descent" raises the invalid-argument error, whatever X, y and the
\* state of the model, and leaves intercept, coefficients, loss_values and
\* param_history as they were.
C2_InvalidMethod ==
    [][\A d \in Datasets :
          fit(d.X, d.y, "ridge", DefaultLearningRate, DefaultIterations) =>
              /\ outcome'.status = MethodError
              /\ intercept' = intercept
              /\ coefficients' = coefficients
              /\ loss_values' = loss_values
              /\ param_history' = param_history
              /\ pc' = "idle"]_vars

\* an invalid-method fit on a fitted model that holds a recorded history
C2_Witness ==
    /\ outcome # None
    /\ outcome.op = "fit"
    /\ outcome.status = MethodError
    /\ coefficients # None
    /\ loss_values # NoAttribute
    /\ loss_values # <<>>

\* C3 as stated: intercept and coefficients are both unset or both set, and
\* when set the number of coefficients is the number of feature columns of
\* the X given to the most recent fit call, failed calls included.
C3_Original ==
    /\ intercept = None <=> coefficients = None
    /\ coefficients # None =>
           call # None /\ Len(coefficients) = features(call.X)

\* C3 as amended: intercept and coefficients are both unset or both set, and
\* when set the number of coefficients is the number of feature columns of
\* the X given to the most recent fit call that assigned them; a fit call
\* that raises before assigning leaves the earlier parameters in place.
C3_ParamsInvariant ==
    /\ intercept = None <=> coefficients = None
    /\ coefficients = None <=> fitted_on = None
    /\ coefficients # None => Len(coefficients) = features(fitted_on)
    /\ (call # None /\ call.coefficients_writes > 0) => fitted_on = call.X
    /\ (call # None /\ call.coefficients_writes = 0) => call.status = "raised"

\* parameters of a one-feature fit survive a failed fit given two features
C3_Witness ==
    /\ coefficients # None
    /\ Len(coefficients) = 1
    /\ call # None
    /\ call.status = "raised"
    /\ features(call.X) = 2

\* C4 as stated: every fit call that returns, with either method, has
\* written intercept and coefficients exactly once.
C4_Original ==
    (call # None /\ call.status = "returned") =>
        call.intercept_writes = 1 /\ call.coefficients_writes = 1

\* C4 as amended: the parameters are unset at construction; a least_squares
\* fit that returns has written each exactly once, and they are the solution
\* of its own normal equation; a gradient_descent fit with iteration count T
\* that returns has written each 1 + T times (the random initialisation and
\* one update per iteration).
C4_WritesPerFit ==
    /\ call = None => Unset
    /\ LastFit("least_squares", "returned") =>
           /\ call.intercept_writes = 1
           /\ call.coefficients_writes = 1
           /\ <<intercept>> \o coefficients =
                  normal_equation(with_bias(ToRatMatrix(reshape(call.X))), call.y)
    /\ LastFit("gradient_descent", "returned") =>
           /\ call.intercept_writes = 1 + call.iterations
           /\ call.coefficients_writes = 1 + call.iterations

\* a least_squares fit overwrote what a two-iteration gradient descent left
C4_Witness ==
    /\ LastFit("least_squares", "returned")
    /\ loss_values # NoAttribute
    /\ Len(loss_values) = 2

\* C5: when a gradient_descent fit with iteration count T returns, it has
\* made exactly T updates, and loss_values and param_history hold exactly T
\* entries, all appended by this call: the first is this call's random
\* initial parameters and each has one value per parameter of this call.
C5_HistoryLength ==
    LastFit("gradient_descent", "returned") =>
        /\ call.updates = call.iterations
        /\ Len(loss_values) = call.iterations
        /\ Len(param_history) = call.iterations
        /\ call.iterations > 0 => param_history[1] = call.initial
        /\ \A k \in 1..Len(param_history) :
               Len(param_history[k]) = features(call.X) + 1

\* a returned two-iteration fit
C5_Witness ==
    /\ LastFit("gradient_descent", "returned")
    /\ call.iterations = 2
    /\ Len(param_history) = 2

\* a returned zero-iteration fit after an earlier fit had recorded history
C5_WitnessZero ==
    /\ LastFit("gradient_descent", "returned")
    /\ call.iterations = 0
    /\ loss_values = <<>>

(***************************************************************************)
(* Least squares followed by predict on the same X (SpecLS).               *)
(***************************************************************************)
\* the bias-augmented X has full column rank
NoCollinearity(X) ==
    LET Xb == with_bias(ToRatMatrix(reshape(X)))
    IN  MatrixRank(FaddeevLeVerrier(MatMul(Transpose(Xb), Xb), Cols(Xb))) = Cols(Xb)

\* coefficients tried for an exact affine fit
SmallIntegers == -3..3

\* y[i] = b + w . X[i] for every row i, for some small integers b and w
ExactlyAffine(X, y) ==
    LET rows == ToRatMatrix(reshape(X))
    IN  \E b \in SmallIntegers, w \in [1..Cols(rows) -> SmallIntegers] :
            \A i \in 1..Len(rows) :
                Len(y) = Len(rows) /\ y[i] = RAdd(R(b), Dot(rows[i], ToRat(w)))

\* predict was just called on the X of the least_squares fit that set the
\* parameters
PredictedOnFittedX ==
    /\ LastFit("least_squares", "returned")
    /\ outcome.op = "predict"
    /\ outcome.X = call.X

\* C8 as stated: for X with no collinearity and any y, least_squares fit
\* followed by predict on the same X returns y.
C8_Original ==
    (PredictedOnFittedX /\ NoCollinearity(call.X)) =>
        (outcome.status = "ok" /\ outcome.value = call.y)

\* C8 as amended: for X with no collinearity and a y that is an exact affine
\* function of the feature columns (as every y is when X has as many rows as
\* parameters), least_squares fit followed by predict on the same X returns y.
C8_ReproducesAffine ==
    (PredictedOnFittedX /\ NoCollinearity(call.X) /\ ExactlyAffine(call.X, call.y)) =>
        (outcome.status = "ok" /\ outcome.value = call.y)

\* y on a line through three points, reproduced by fit and predict
C8_Witness ==
    /\ PredictedOnFittedX
    /\ NoCollinearity(call.X)
    /\ ExactlyAffine(call.X, call.y)
    /\ Len(call.y) = 3
    /\ features(call.X) = 1
    /\ outcome.value = call.y

(***************************************************************************)
(* Order of recording and updating in fit_gradient_descent (SpecGD).       *)
(***************************************************************************)
\* the error of parameters h = <<intercept>> \o coefficients on (rows, y),
\* one target per row: rows[i] . coefficients + intercept - y[i]
ErrorOf(h, rows, y) ==
    Vec([i \in 1..Len(rows) |-> RSub(RAdd(Dot(rows[i], Tail(h)), h[1]), y[i])])

\* the mean of the squares of the error of h
LossOf(h, rows, y) ==
    LET e == ErrorOf(h, rows, y)
    IN  RDiv(Sum(Vec([i \in 1..Len(e) |-> RSquare(e[i])])), R(Len(e)))

\* one update of every parameter of h, each from the error of h itself:
\* the intercept moves by rate/n times the sum of the errors, and
\* coefficient j by rate/n times the sum of error[i] * rows[i][j]
StepOf(h, rows, y, rate) ==
    LET e == ErrorOf(h, rows, y)
        step == RDiv(rate, R(Len(rows)))
    IN  <<RSub(h[1], RMul(step, Sum(e)))>> \o
        Vec([j \in 1..Len(h) - 1 |->
                RSub(h[j + 1], RMul(step, Dot(Column(rows, j), e)))])

\* C9: during and after a gradient_descent fit, param_history entry k (from
\* 0) is the parameters after exactly k updates, entry 0 being the random
\* initial ones, and the lists hold one entry per update made, so that the
\* parameters after the last update are in neither; when y has one target
\* per row of X, loss_values entry k is the mean squared error of entry k,
\* and every update changes intercept and coefficients together from the
\* error of the parameters before the update.
C9_RecordedBeforeUpdate ==
    (call # None /\ call.method = "gradient_descent") =>
        LET rows == ToRatMatrix(reshape(call.X))
            n == Len(param_history)
            current == <<intercept>> \o coefficients
        IN  /\ Len(loss_values) = n
            /\ n > 0 => param_history[1] = call.initial
            /\ n = 0 => current = call.initial
            /\ \/ call.updates = n
               \/ \* the iteration raised between recording and updating
                  /\ call.status = "raised"
                  /\ call.updates = n - 1
                  /\ current = param_history[n]
            /\ Len(call.y) = Len(rows) =>
                   /\ call.updates = n
                   /\ \A k \in 1..n :
                          loss_values[k] = LossOf(param_history[k], rows, call.y)
                   /\ \A k \in 1..n - 1 :
                          param_history[k + 1] =
                              StepOf(param_history[k], rows, call.y,
                                     call.learning_rate)
                   /\ n > 0 => current = StepOf(param_history[n], rows, call.y,
                                                call.learning_rate)

\* a returned two-iteration fit on three rows whose second update moved
\* the parameters again
C9_Witness ==
    /\ LastFit("gradient_descent", "returned")
    /\ call.iterations = 2
    /\ Len(call.y) = 3
    /\ Len(param_history) = 2
    /\ param_history[1] # param_history[2]
    /\ <<intercept>> \o coefficients # param_history[2]

(***************************************************************************)
(* evaluate_regression (SpecEvaluate).                                     *)
(***************************************************************************)
Evaluated == outcome # None /\ outcome.op = "evaluate_regression"
NonConstant(y) == \E i, j \in 1..Len(y) : y[i] # y[j]

\* C7: evaluate_regression(y, y) returns R2 = 1, RMSE = 0 and MAE = 0 for
\* every non-constant y.
C7_PerfectPrediction ==
    (Evaluated /\ args.y_true = args.y_pred /\ NonConstant(args.y_true)) =>
        /\ outcome.status = "ok"
        /\ outcome.value.R2 = One
        /\ outcome.value.RMSE = Zero
        /\ outcome.value.MAE = Zero

C7_Witness ==
    /\ Evaluated
    /\ args.y_true = args.y_pred
    /\ NonConstant(args.y_true)
    /\ Len(args.y_true) = 3
    /\ outcome.value.R2 = One

(***************************************************************************)
(* one_hot_encode (SpecEncode).                                            *)
(***************************************************************************)
Encoded == outcome # None /\ outcome.op = "one_hot_encode"

RECURSIVE IntSum(_)
IntSum(v) == IF v = <<>> THEN 0 ELSE v[1] + IntSum(Tail(v))

RECURSIVE Concat(_)
Concat(blocks) == IF blocks = <<>> THEN <<>> ELSE blocks[1] \o Concat(Tail(blocks))

\* the distinct values of column c, and how many indicator columns column c
\* gets
Categories(rows, c) == {rows[i][c] : i \in 1..Len(rows)}
IndicatorCount(rows, c, drop_first) ==
    Cardinality(Categories(rows, c)) - (IF drop_first THEN 1 ELSE 0)

\* the columns that column c occupies in the output: one if it is not
\* categorical, else its indicator columns; and where they start
WidthOf(rows, indices, drop_first, c) ==
    IF c \in indices THEN IndicatorCount(rows, c, drop_first) ELSE 1
StartOf(rows, indices, drop_first, c) ==
    1 + IntSum([j \in 1..c - 1 |-> WidthOf(rows, indices, drop_first, j)] \o <<>>)

\* the cells that row i of the output holds for categorical column c
IndicatorsOf(out, rows, indices, drop_first, i, c) ==
    SubSeq(out[i], StartOf(rows, indices, drop_first, c),
           StartOf(rows, indices, drop_first, c)
               + IndicatorCount(rows, c, drop_first) - 1)

\* the number an output cell of an array of this dtype stands for as an
\* indicator: 1, 0, or 2 when it is neither
IndicatorValue(cell, dtype) ==
    IF cell = astype(1, dtype) THEN 1 ELSE IF cell = astype(0, dtype) THEN 0 ELSE 2

C6_WitnessDropFirst ==
    /\ Encoded
    /\ args.drop_first
    /\ args.categorical_indices = <<1>>
    /\ Cardinality(Categories(args.X.data, 1)) = 2
    /\ \E i \in 1..Len(args.X.data) :
           outcome.value.data[i][1] = astype(0, args.X.dtype)
    /\ \E i \in 1..Len(args.X.data) :
           outcome.value.data[i][1] = astype(1, args.X.dtype)

\* the distinct values of column c in ascending order
AscendingCategories(rows, c, dtype) ==
    CHOOSE s \in [1..Cardinality(Categories(rows, c)) -> Categories(rows, c)] :
        \A a, b \in DOMAIN s : a < b => sort_key(dtype, s[a]) < sort_key(dtype, s[b])

\* what row i of the output holds in place of column c of X
BlockOf(X, indices, drop_first, i, c) ==
    IF c \notin indices THEN <<X.data[i][c]>>
    ELSE LET values == AscendingCategories(X.data, c, X.dtype)
             block == [k \in 1..Len(values) |->
                          astype(IF X.data[i][c] = values[k] THEN 1 ELSE 0, X.dtype)]
                      \o <<>>
         IN  IF drop_first THEN Tail(block) ELSE block

\* C10: for distinct categorical indices the output has the rows of X, each
\* made of the columns of X in their original order with every categorical
\* column replaced in place by its indicators in ascending order of the
\* distinct values (less the first when drop_first), the other columns
\* keeping their values; and X itself is as it was.
C10_Layout ==
    Encoded =>
        LET X == args.X
            out == outcome.value.data
            indices == Range(args.categorical_indices)
        IN  /\ Len(out) = Len(X.data)
            /\ \A i \in 1..Len(X.data) :
                   out[i] = Concat([c \in 1..Len(X.data[1]) |->
                                       BlockOf(X, indices, args.drop_first, i, c)]
                                   \o <<>>)
            /\ outcome.X = args.X

\* two categorical columns with two categories each, nothing dropped, and a
\* third column after them
C10_Witness ==
    /\ Encoded
    /\ ~args.drop_first
    /\ Range(args.categorical_indices) = {1, 2}
    /\ Len(args.X.data[1]) = 3
    /\ Cardinality(Categories(args.X.data, 1)) = 2
    /\ Cardinality(Categories(args.X.data, 2)) = 2
    /\ Len(outcome.value.data[1]) = 5
==========================================================================
